---- MODULE Spec2Model ----
(***************************************************************************)
(* Model of the Standard MIDI File decoder of src/main.rs (MidiFile::open, *)
(* parse_track, parse_event, parse_message, read_variable_length).         *)
(*                                                                         *)
(* The byte source is a sequence of bytes `file` and a 0-based offset      *)
(* `pos`; the byte at offset p is file[p+1].  Seeking past the end is      *)
(* allowed (as for std::fs::File); a read there fails with an I/O error.   *)
(* Every decoding function is an operator returning a record               *)
(*   [err |-> "none" | "Io" | "Format" | "Unsupported" | "panic", ...,     *)
(*    pos |-> offset after the call].                                      *)
(* The operators are composed twice: as the pure functions ParseEvent and  *)
(* ParseTrack, and as the step machine of Spec, which exposes the stream   *)
(* position between the reads and seeks of one event.                      *)
(***************************************************************************)
EXTENDS Integers, Sequences, FiniteSets, TLC

VARIABLES
    file,             \* the bytes of the source
    pos,              \* stream position (0-based offset)
    pc,               \* control location of the decoder
    overflow_checks,  \* build profile: TRUE = arithmetic overflow panics
    error,            \* "none" or the kind of the error returned
    midi_file,        \* value returned by open (NoFile until Ok)
    header_length,    \* open: header_length
    format,           \* open: format
    num_tracks,       \* open: num_tracks
    time_division,    \* open: time_division
    tracks,           \* open: tracks
    track_length,     \* parse_track: track_length
    track_start_pos,  \* parse_track: track_start_pos
    events,           \* parse_track: events
    running_status,   \* parse_track: running_status (None = -1)
    delta_time,       \* parse_event: delta_time
    status,           \* parse_event: status
    chunk_pos,        \* history: offset of every track chunk tag read
    status_log,       \* history: status-position bytes read in this track
    iter_pos,         \* history: position at the start of the loop iteration
    ret               \* result of the function applied in a unit specification

vars == <<file, pos, pc, overflow_checks, error, midi_file, header_length,
          format, num_tracks, time_division, tracks, track_length,
          track_start_pos, events, running_status, delta_time, status,
          chunk_pos, status_log, iter_pos, ret>>

(***************************************************************************)
(* Bounds of the input sets.                                               *)
(***************************************************************************)
MaxEvents == 3
MaxTracks == 2
MaxVlqBytes == 5
MaxMetaLen == 5
MaxBody == 3
MaxLiveEvents == 2

None == -1
NoFile == [type |-> "None"]
NoMsg == [type |-> "none"]

Byte == 0..255

RECURSIVE Pow2(_)
Pow2(n) == IF n = 0 THEN 1 ELSE 2 * Pow2(n - 1)

RECURSIVE Flatten(_)
Flatten(ss) == IF ss = <<>> THEN <<>> ELSE Head(ss) \o Flatten(Tail(ss))

(***************************************************************************)
(* The byte source: read_exact, read_u8, read_u16, read_u32 (big endian).  *)
(* A short read is an I/O error; it leaves the position at the end of the  *)
(* source (or where it was, when already past the end).  The sources of    *)
(* the model keep their 32-bit length fields below 2^31.                   *)
(***************************************************************************)
ReadExact(f, p, n) ==
    IF p + n <= Len(f)
    THEN [err |-> "none", data |-> SubSeq(f, p + 1, p + n), pos |-> p + n]
    ELSE [err |-> "Io", data |-> <<>>, pos |-> IF p > Len(f) THEN p ELSE Len(f)]

ReadU8(f, p) ==
    LET r == ReadExact(f, p, 1) IN
    [err |-> r.err, val |-> IF r.err = "none" THEN r.data[1] ELSE 0, pos |-> r.pos]

ReadU16(f, p) ==
    LET r == ReadExact(f, p, 2) IN
    [err |-> r.err,
     val |-> IF r.err = "none" THEN r.data[1] * 256 + r.data[2] ELSE 0,
     pos |-> r.pos]

ReadU32(f, p) ==
    LET r == ReadExact(f, p, 4) IN
    [err |-> r.err,
     val |-> IF r.err = "none"
             THEN r.data[1] * 16777216 + r.data[2] * 65536
                  + r.data[3] * 256 + r.data[4]
             ELSE 0,
     pos |-> r.pos]

(***************************************************************************)
(* validate_chunk_header: four bytes that must equal the expected tag.     *)
(***************************************************************************)
MThd == <<77, 84, 104, 100>>
MTrk == <<77, 84, 114, 107>>

ValidateChunkHeader(f, p, expected) ==
    LET r == ReadExact(f, p, 4) IN
    IF r.err # "none" THEN [err |-> "Io", pos |-> r.pos]
    ELSE IF r.data # expected THEN [err |-> "Format", pos |-> r.pos]
    ELSE [err |-> "none", pos |-> r.pos]

(***************************************************************************)
(* read_variable_length: value = (value << 7) | (byte & 0x7F) on a u32,    *)
(* until a byte with the high bit clear.  The u32 is carried as two 16-bit *)
(* limbs so that the shift wraps at 32 bits; the result is the number      *)
(* itself below 2^31 and its two's complement (a negative number) from     *)
(* 2^31 on, the integers of the checker being 32 bits wide.                *)
(***************************************************************************)
U32(hi, lo) == IF hi < 32768 THEN hi * 65536 + lo ELSE (hi - 65536) * 65536 + lo

Shl7Hi(hi, lo) == (hi * 128 + (lo \div 512)) % 65536
Shl7Lo(lo) == (lo * 128) % 65536

\* ContinuationBit taking 0x80 for a terminal byte.
ContinuationBitOffByOne(byte) == byte > 128

ContinuationBit(byte) == byte >= 128

RECURSIVE VlqLoop(_, _, _, _)
VlqLoop(f, p, hi, lo) ==
    LET r == ReadU8(f, p) IN
    IF r.err # "none" THEN [err |-> "Io", val |-> 0, pos |-> r.pos]
    ELSE LET h == Shl7Hi(hi, lo)
             l == Shl7Lo(lo) + (r.val % 128) IN
         IF ~ContinuationBit(r.val)
         THEN [err |-> "none", val |-> U32(h, l), pos |-> r.pos]
         ELSE VlqLoop(f, r.pos, h, l)

ReadVariableLength(f, p) == VlqLoop(f, p, 0, 0)

(***************************************************************************)
(* String::from_utf8_lossy: the code points of the payload, every maximal  *)
(* invalid subpart replaced by U+FFFD (65533).                             *)
(***************************************************************************)
IsCont(f, i, lo, hi) == i <= Len(f) /\ f[i] >= lo /\ f[i] <= hi

RECURSIVE Utf8Loop(_, _)
Utf8Loop(d, i) ==
    IF i > Len(d) THEN <<>>
    ELSE LET b == d[i] IN
      IF b < 128 THEN <<b>> \o Utf8Loop(d, i + 1)
      ELSE IF b >= 194 /\ b <= 223 THEN
        IF IsCont(d, i + 1, 128, 191)
        THEN <<(b % 32) * 64 + (d[i + 1] % 64)>> \o Utf8Loop(d, i + 2)
        ELSE <<65533>> \o Utf8Loop(d, i + 1)
      ELSE IF b >= 224 /\ b <= 239 THEN
        LET lo == IF b = 224 THEN 160 ELSE 128
            hi == IF b = 237 THEN 159 ELSE 191 IN
        IF ~IsCont(d, i + 1, lo, hi) THEN <<65533>> \o Utf8Loop(d, i + 1)
        ELSE IF ~IsCont(d, i + 2, 128, 191) THEN <<65533>> \o Utf8Loop(d, i + 2)
        ELSE <<(b % 16) * 4096 + (d[i + 1] % 64) * 64 + (d[i + 2] % 64)>>
             \o Utf8Loop(d, i + 3)
      ELSE IF b >= 240 /\ b <= 244 THEN
        LET lo == IF b = 240 THEN 144 ELSE 128
            hi == IF b = 244 THEN 143 ELSE 191 IN
        IF ~IsCont(d, i + 1, lo, hi) THEN <<65533>> \o Utf8Loop(d, i + 1)
        ELSE IF ~IsCont(d, i + 2, 128, 191) THEN <<65533>> \o Utf8Loop(d, i + 2)
        ELSE IF ~IsCont(d, i + 3, 128, 191) THEN <<65533>> \o Utf8Loop(d, i + 3)
        ELSE <<(b % 8) * 262144 + (d[i + 1] % 64) * 4096
               + (d[i + 2] % 64) * 64 + (d[i + 3] % 64)>>
             \o Utf8Loop(d, i + 4)
      ELSE <<65533>> \o Utf8Loop(d, i + 1)

FromUtf8Lossy(data) == Utf8Loop(data, 1)

(***************************************************************************)
(* MidiMessage and MetaEvent values.                                       *)
(***************************************************************************)
NoteOn(c, n, v) == [type |-> "NoteOn", channel |-> c, note |-> n, velocity |-> v]
NoteOff(c, n, v) == [type |-> "NoteOff", channel |-> c, note |-> n, velocity |-> v]
PolyphonicKeyPressure(c, n, p) ==
    [type |-> "PolyphonicKeyPressure", channel |-> c, note |-> n, pressure |-> p]
ControlChange(c, k, v) ==
    [type |-> "ControlChange", channel |-> c, controller |-> k, value |-> v]
ProgramChange(c, p) == [type |-> "ProgramChange", channel |-> c, program |-> p]
ChannelPressure(c, p) == [type |-> "ChannelPressure", channel |-> c, pressure |-> p]
PitchBendChange(c, v) == [type |-> "PitchBendChange", channel |-> c, value |-> v]
SysEx(d) == [type |-> "SysEx", data |-> d]
Meta(m) == [type |-> "Meta", meta |-> m]

SequenceNumber(v) == [kind |-> "SequenceNumber", value |-> v]
TextLike(k, s) == [kind |-> k, text |-> s]
EndOfTrack == [kind |-> "EndOfTrack"]
SetTempo(t) == [kind |-> "SetTempo", tempo |-> t]
TimeSignature(n, d, c, t) ==
    [kind |-> "TimeSignature", numerator |-> n, denominator |-> d,
     clocks_per_metronome |-> c, thirty_seconds_per_quarter |-> t]
KeySignature(k, s) == [kind |-> "KeySignature", key |-> k, scale |-> s]
SequencerSpecific(d) == [kind |-> "SequencerSpecific", data |-> d]

MidiEvent(dt, m) == [delta_time |-> dt, message |-> m]

IsEndOfTrack(m) == m.type = "Meta" /\ m.meta.kind = "EndOfTrack"

ChannelTypes == {"NoteOn", "NoteOff", "PolyphonicKeyPressure", "ControlChange",
                 "ProgramChange", "ChannelPressure", "PitchBendChange"}

Ok(m, p) == [err |-> "none", msg |-> m, pos |-> p]
Fail(e, p) == [err |-> e, msg |-> NoMsg, pos |-> p]

(***************************************************************************)
(* parse_message, 0xFF arm: meta type, VLQ length, `length` payload bytes, *)
(* then the dispatch on the meta type.                                     *)
(***************************************************************************)
\* `1 << data[1]` on a u8: the shift amount must be below 8.  With overflow
\* checks the build panics (Panicked); without, the amount is masked to 3 bits.
Panicked == -1

ShlOneU8(n) ==
    IF n < 8 THEN Pow2(n)
    ELSE IF overflow_checks THEN Panicked
    ELSE Pow2(n % 8)

\* LengthMatches accepting a payload longer than required.
LengthMatchesAtLeast(length, required) == length >= required

LengthMatches(length, required) == length = required

MetaDispatch(meta_type, length, data, p) ==
    CASE meta_type = 0 ->
           IF ~LengthMatches(length, 2) THEN Fail("Format", p)
           ELSE Ok(Meta(SequenceNumber(data[1] * 256 + data[2])), p)
      [] meta_type = 1 -> Ok(Meta(TextLike("Text", FromUtf8Lossy(data))), p)
      [] meta_type = 2 -> Ok(Meta(TextLike("CopyrightNotice", FromUtf8Lossy(data))), p)
      [] meta_type = 3 -> Ok(Meta(TextLike("TrackName", FromUtf8Lossy(data))), p)
      [] meta_type = 4 -> Ok(Meta(TextLike("InstrumentName", FromUtf8Lossy(data))), p)
      [] meta_type = 5 -> Ok(Meta(TextLike("Lyrics", FromUtf8Lossy(data))), p)
      [] meta_type = 6 -> Ok(Meta(TextLike("Marker", FromUtf8Lossy(data))), p)
      [] meta_type = 7 -> Ok(Meta(TextLike("CuePoint", FromUtf8Lossy(data))), p)
      [] meta_type = 47 ->
           IF ~LengthMatches(length, 0) THEN Fail("Format", p)
           ELSE Ok(Meta(EndOfTrack), p)
      [] meta_type = 81 ->
           IF ~LengthMatches(length, 3) THEN Fail("Format", p)
           ELSE Ok(Meta(SetTempo(data[1] * 65536 + data[2] * 256 + data[3])), p)
      [] meta_type = 88 ->
           IF ~LengthMatches(length, 4) THEN Fail("Format", p)
           ELSE LET d == ShlOneU8(data[2]) IN
                IF d = Panicked THEN Fail("panic", p)
                ELSE Ok(Meta(TimeSignature(data[1], d, data[3], data[4])), p)
      [] meta_type = 89 ->
           IF ~LengthMatches(length, 2) THEN Fail("Format", p)
           ELSE Ok(Meta(KeySignature(IF data[1] >= 128 THEN data[1] - 256
                                     ELSE data[1],
                                     data[2])), p)
      [] meta_type = 127 -> Ok(Meta(SequencerSpecific(data)), p)
      [] OTHER -> Fail("Unsupported", p)

\* `length as usize`: a length of 2^31 or more is more than any source of
\* the model holds.
AsUsize(f, length) == IF length < 0 THEN Len(f) + 1 ELSE length

ParseMeta(f, p) ==
    LET t == ReadU8(f, p) IN
    IF t.err # "none" THEN Fail("Io", t.pos)
    ELSE LET l == ReadVariableLength(f, t.pos) IN
      IF l.err # "none" THEN Fail("Io", l.pos)
      ELSE LET d == ReadExact(f, l.pos, AsUsize(f, l.val)) IN
        IF d.err # "none" THEN Fail("Io", d.pos)
        ELSE MetaDispatch(t.val, l.val, d.data, d.pos)

(***************************************************************************)
(* parse_message, 0xF0 arm: bytes up to (not including) the first 0xF7.    *)
(***************************************************************************)
RECURSIVE SysExLoop(_, _, _)
SysExLoop(f, p, data) ==
    LET r == ReadU8(f, p) IN
    IF r.err # "none" THEN Fail("Io", r.pos)
    ELSE IF r.val = 247 THEN Ok(SysEx(data), r.pos)
    ELSE SysExLoop(f, r.pos, Append(data, r.val))

(***************************************************************************)
(* parse_message: the channel arms read one or two body bytes.             *)
(***************************************************************************)
\* (msb << 7) | lsb on u16 values that came from bytes: bit 7 of lsb and
\* bit 0 of msb fall on the same bit.
PitchBendValue(lsb, msb) ==
    (msb \div 2) * 256
    + (IF msb % 2 = 1 \/ lsb >= 128 THEN 128 ELSE 0)
    + (lsb % 128) - 8192

TwoBytes(f, p, mk(_, _)) ==
    LET a == ReadU8(f, p) IN
    IF a.err # "none" THEN Fail("Io", a.pos)
    ELSE LET b == ReadU8(f, a.pos) IN
      IF b.err # "none" THEN Fail("Io", b.pos)
      ELSE Ok(mk(a.val, b.val), b.pos)

OneByte(f, p, mk(_)) ==
    LET a == ReadU8(f, p) IN
    IF a.err # "none" THEN Fail("Io", a.pos)
    ELSE Ok(mk(a.val), a.pos)

ParseMessage(f, p, st) ==
    LET channel == st % 16 IN
    CASE st >= 128 /\ st <= 143 ->
           TwoBytes(f, p, LAMBDA n, v : NoteOff(channel, n, v))
      [] st >= 144 /\ st <= 159 ->
           TwoBytes(f, p, LAMBDA n, v : IF v = 0 THEN NoteOff(channel, n, v)
                                        ELSE NoteOn(channel, n, v))
      [] st >= 160 /\ st <= 175 ->
           TwoBytes(f, p, LAMBDA n, v : PolyphonicKeyPressure(channel, n, v))
      [] st >= 176 /\ st <= 191 ->
           TwoBytes(f, p, LAMBDA c, v : ControlChange(channel, c, v))
      [] st >= 192 /\ st <= 207 ->
           OneByte(f, p, LAMBDA v : ProgramChange(channel, v))
      [] st >= 208 /\ st <= 223 ->
           OneByte(f, p, LAMBDA v : ChannelPressure(channel, v))
      [] st >= 224 /\ st <= 239 ->
           TwoBytes(f, p, LAMBDA l, m : PitchBendChange(channel, PitchBendValue(l, m)))
      [] st = 240 -> SysExLoop(f, p, <<>>)
      [] st = 255 -> ParseMeta(f, p)
      [] OTHER -> Fail("Unsupported", p)

(***************************************************************************)
(* parse_event: delta time, status byte resolved against running status,   *)
(* message.  ResolveStatus is the branch on the byte in status position:   *)
(* the effective status, the new running status and the relative seek.     *)
(***************************************************************************)
\* ResolveStatus without the one-byte seek back.
ResolveStatusNoRewind(b, rs) ==
    IF b < 128
    THEN IF rs # None
         THEN [err |-> "none", status |-> rs, rs |-> rs, seek |-> 0]
         ELSE [err |-> "Format", status |-> b, rs |-> rs, seek |-> 0]
    ELSE [err |-> "none", status |-> b,
          rs |-> IF b < 240 THEN b ELSE rs, seek |-> 0]

\* ResolveStatus storing every status byte, system messages included.
ResolveStatusAnyStatus(b, rs) ==
    IF b < 128
    THEN IF rs # None
         THEN [err |-> "none", status |-> rs, rs |-> rs, seek |-> -1]
         ELSE [err |-> "Format", status |-> b, rs |-> rs, seek |-> 0]
    ELSE [err |-> "none", status |-> b, rs |-> b, seek |-> 0]

\* ResolveStatus seeking back over the delta time byte as well.
ResolveStatusRewindTwo(b, rs) ==
    IF b < 128
    THEN IF rs # None
         THEN [err |-> "none", status |-> rs, rs |-> rs, seek |-> -2]
         ELSE [err |-> "Format", status |-> b, rs |-> rs, seek |-> 0]
    ELSE [err |-> "none", status |-> b,
          rs |-> IF b < 240 THEN b ELSE rs, seek |-> 0]

ResolveStatus(b, rs) ==
    IF b < 128
    THEN IF rs # None
         THEN [err |-> "none", status |-> rs, rs |-> rs, seek |-> -1]
         ELSE [err |-> "Format", status |-> b, rs |-> rs, seek |-> 0]
    ELSE [err |-> "none", status |-> b,
          rs |-> IF b < 240 THEN b ELSE rs, seek |-> 0]

NoEvent == MidiEvent(0, NoMsg)

ParseEvent(f, p, rs) ==
    LET d == ReadVariableLength(f, p) IN
    IF d.err # "none" THEN [err |-> "Io", event |-> NoEvent, pos |-> d.pos, rs |-> rs]
    ELSE LET s == ReadU8(f, d.pos) IN
      IF s.err # "none" THEN [err |-> "Io", event |-> NoEvent, pos |-> s.pos, rs |-> rs]
      ELSE LET r == ResolveStatus(s.val, rs) IN
        IF r.err # "none"
        THEN [err |-> r.err, event |-> NoEvent, pos |-> s.pos, rs |-> rs]
        ELSE LET m == ParseMessage(f, s.pos + r.seek, r.status) IN
          IF m.err # "none"
          THEN [err |-> m.err, event |-> NoEvent, pos |-> m.pos, rs |-> r.rs]
          ELSE [err |-> "none", event |-> MidiEvent(d.val, m.msg),
                pos |-> m.pos, rs |-> r.rs]

(***************************************************************************)
(* parse_track as a function of the source: the events of the chunk whose  *)
(* tag is at offset p, and the position on return.                         *)
(***************************************************************************)
RECURSIVE EventLoop(_, _, _, _, _)
EventLoop(f, p, rs, evs, end) ==
    IF ~(p < end) THEN [err |-> "none", events |-> evs, pos |-> p]
    ELSE LET e == ParseEvent(f, p, rs) IN
      IF e.err # "none" THEN [err |-> e.err, events |-> evs, pos |-> e.pos]
      ELSE IF IsEndOfTrack(e.event.message)
      THEN [err |-> "none", events |-> Append(evs, e.event), pos |-> e.pos]
      ELSE EventLoop(f, e.pos, e.rs, Append(evs, e.event), end)

ParseTrack(f, p) ==
    LET h == ValidateChunkHeader(f, p, MTrk) IN
    IF h.err # "none" THEN [err |-> h.err, events |-> <<>>, pos |-> h.pos]
    ELSE LET l == ReadU32(f, h.pos) IN
      IF l.err # "none" THEN [err |-> "Io", events |-> <<>>, pos |-> l.pos]
      ELSE LET r == EventLoop(f, l.pos, None, <<>>, l.pos + l.val) IN
        IF r.err # "none" THEN r
        ELSE [err |-> "none", events |-> r.events, pos |-> l.pos + l.val]

(***************************************************************************)
(* The sources Spec decodes: a header chunk followed by track chunks made  *)
(* of event encodings, with exact, padded and too-short declared lengths,  *)
(* and the malformed and truncated headers.                                *)
(***************************************************************************)
U16BE(v) == <<v \div 256, v % 256>>
U32BE(v) == <<v \div 16777216, (v \div 65536) % 256, (v \div 256) % 256, v % 256>>

HeaderChunk(tag, hlen, fmt, nt) ==
    tag \o U32BE(hlen) \o U16BE(fmt) \o U16BE(nt) \o U16BE(480)

EventFrags ==
    { <<0, 144, 60, 64>>,                \* NoteOn ch 0
      <<129, 0, 60, 0>>,                 \* delta 128, then two data bytes
      <<0, 255, 47, 0>>,                 \* EndOfTrack
      <<0, 240, 126, 247>>,              \* SysEx
      <<0, 255, 88, 4, 4, 8, 24, 8>> }   \* TimeSignature, payload[1] = 8

LaterFrags ==
    { <<129, 0, 60, 0>>,
      <<0, 255, 47, 0>> }

EventLists(frags, n) == UNION { [1..k -> frags] : k \in 0..n }

\* <<padding bytes, declared length - bytes present>>
Shapes == { <<0, 0>>, <<1, 0>>, <<0, -1>> }

Padding(n) == [i \in 1..n |-> 0]

TrackChunk(evs, shape) ==
    LET body == Flatten(evs) \o Padding(shape[1])
        declared == IF Len(body) + shape[2] < 0 THEN 0 ELSE Len(body) + shape[2]
    IN  MTrk \o U32BE(declared) \o body

FirstTracks ==
    { TrackChunk(evs, sh) : evs \in EventLists(EventFrags, MaxEvents), sh \in Shapes }
LaterTracks == { TrackChunk(evs, <<0, 0>>) : evs \in EventLists(LaterFrags, 1) }

RECURSIVE TrackSeqs(_)
TrackSeqs(n) ==
    IF n = 0 THEN { <<>> }
    ELSE IF n = 1 THEN FirstTracks
    ELSE { a \o b : a \in TrackSeqs(n - 1), b \in LaterTracks }

GoodFiles ==
    UNION { { HeaderChunk(MThd, 6, n % 3, n) \o body : body \in TrackSeqs(n) }
            : n \in 0..MaxTracks }

BadFiles ==
    LET good == HeaderChunk(MThd, 6, 1, 1) \o TrackChunk(<< <<0, 255, 47, 0>> >>, <<0, 0>>)
    IN  { HeaderChunk(<<77, 84, 104, 120>>, 6, 0, 0),
          HeaderChunk(MThd, 5, 0, 0),
          HeaderChunk(MThd, 6, 3, 1),
          HeaderChunk(MThd, 6, 1, 1),
          HeaderChunk(MThd, 6, 1, 2) \o TrackChunk(<< <<0, 255, 47, 0>> >>, <<0, 0>>) }
        \cup { SubSeq(good, 1, k) : k \in 0..(Len(good) - 1) }

Files == GoodFiles \cup BadFiles

(***************************************************************************)
(* MidiFile::open as a step machine.                                       *)
(***************************************************************************)
Start(f) ==
    /\ file = f
    /\ pos = 0
    /\ overflow_checks \in BOOLEAN
    /\ error = "none"
    /\ midi_file = NoFile
    /\ header_length = 0
    /\ format = 0
    /\ num_tracks = 0
    /\ time_division = 0
    /\ tracks = <<>>
    /\ track_length = 0
    /\ track_start_pos = 0
    /\ events = <<>>
    /\ running_status = None
    /\ delta_time = 0
    /\ status = None
    /\ chunk_pos = <<>>
    /\ status_log = <<>>
    /\ iter_pos = 0
    /\ ret = NoMsg

Init == \E f \in Files : Start(f) /\ pc = "open"

\* `?`: an error ends the decode; a panic unwinds out of open.
Raise(e) ==
    /\ pc' = IF e = "panic" THEN "panic" ELSE "err"
    /\ error' = e

OpenValidate ==
    /\ pc = "open"
    /\ LET r == ValidateChunkHeader(file, pos, MThd) IN
         /\ pos' = r.pos
         /\ IF r.err # "none" THEN Raise(r.err)
            ELSE pc' = "open_length" /\ UNCHANGED error
    /\ UNCHANGED <<file, overflow_checks, midi_file, header_length, format,
                   num_tracks, time_division, tracks, track_length,
                   track_start_pos, events, running_status, delta_time, status,
                   chunk_pos, status_log, iter_pos, ret>>

OpenHeaderLength ==
    /\ pc = "open_length"
    /\ LET r == ReadU32(file, pos) IN
         /\ pos' = r.pos
         /\ header_length' = r.val
         /\ IF r.err # "none" THEN Raise("Io")
            ELSE IF r.val # 6 THEN Raise("Format")
            ELSE pc' = "open_data" /\ UNCHANGED error
    /\ UNCHANGED <<file, overflow_checks, midi_file, format,
                   num_tracks, time_division, tracks, track_length,
                   track_start_pos, events, running_status, delta_time, status,
                   chunk_pos, status_log, iter_pos, ret>>

FormatSupported(fmt) == ~(fmt > 2)

OpenHeaderData ==
    /\ pc = "open_data"
    /\ LET a == ReadU16(file, pos)
           b == ReadU16(file, a.pos)
           c == ReadU16(file, b.pos) IN
         IF a.err # "none"
         THEN pos' = a.pos /\ Raise("Io")
              /\ UNCHANGED <<format, num_tracks, time_division>>
         ELSE IF b.err # "none"
         THEN pos' = b.pos /\ Raise("Io") /\ format' = a.val
              /\ UNCHANGED <<num_tracks, time_division>>
         ELSE IF c.err # "none"
         THEN pos' = c.pos /\ Raise("Io") /\ format' = a.val
              /\ num_tracks' = b.val /\ UNCHANGED time_division
         ELSE /\ pos' = c.pos
              /\ format' = a.val
              /\ num_tracks' = b.val
              /\ time_division' = c.val
              /\ IF ~FormatSupported(a.val) THEN Raise("Format")
                 ELSE pc' = "open_loop" /\ UNCHANGED error
    /\ UNCHANGED <<file, overflow_checks, midi_file, header_length,
                   tracks, track_length,
                   track_start_pos, events, running_status, delta_time, status,
                   chunk_pos, status_log, iter_pos, ret>>

\* MoreTracks stopping one track early.
MoreTracksOffByOne(done, n) == done + 1 < n

\* for _ in 0..num_tracks, then Ok(MidiFile { header, tracks })
MoreTracks(done, n) == done < n

OpenLoop ==
    /\ pc = "open_loop"
    /\ IF MoreTracks(Len(tracks), num_tracks)
       THEN pc' = "track_validate" /\ UNCHANGED midi_file
       ELSE /\ pc' = "ok"
            /\ midi_file' = [type |-> "MidiFile",
                             header |-> [format |-> format,
                                         num_tracks |-> num_tracks,
                                         time_division |-> time_division],
                             tracks |-> tracks]
    /\ UNCHANGED <<file, pos, overflow_checks, error, header_length, format,
                   num_tracks, time_division, tracks, track_length,
                   track_start_pos, events, running_status, delta_time, status,
                   chunk_pos, status_log, iter_pos, ret>>

(***************************************************************************)
(* parse_track as steps.                                                   *)
(***************************************************************************)
TrackValidate ==
    /\ pc = "track_validate"
    /\ chunk_pos' = Append(chunk_pos, pos)
    /\ LET r == ValidateChunkHeader(file, pos, MTrk) IN
         /\ pos' = r.pos
         /\ IF r.err # "none" THEN Raise(r.err)
            ELSE pc' = "track_length" /\ UNCHANGED error
    /\ UNCHANGED <<file, overflow_checks, midi_file, header_length, format,
                   num_tracks, time_division, tracks, track_length,
                   track_start_pos, events, running_status, delta_time, status,
                   status_log, iter_pos, ret>>

\* InitialRunningStatus carrying the previous track's running status over.
InitialRunningStatusKept(previous) == previous

InitialRunningStatus(previous) == None

TrackLength ==
    /\ pc = "track_length"
    /\ LET r == ReadU32(file, pos) IN
         /\ pos' = r.pos
         /\ IF r.err # "none"
            THEN Raise("Io")
                 /\ UNCHANGED <<track_length, track_start_pos, events,
                                running_status, status_log>>
            ELSE /\ track_length' = r.val
                 /\ track_start_pos' = r.pos
                 /\ events' = <<>>
                 /\ running_status' = InitialRunningStatus(running_status)
                 /\ status_log' = <<>>
                 /\ pc' = "track_loop"
                 /\ UNCHANGED error
    /\ UNCHANGED <<file, overflow_checks, midi_file, header_length, format,
                   num_tracks, time_division, tracks, delta_time, status,
                   chunk_pos, iter_pos, ret>>

\* while file.stream_position()? < track_start_pos + track_length
LoopCondition(p, start, length) == p < start + length

TrackLoop ==
    /\ pc = "track_loop"
    /\ IF LoopCondition(pos, track_start_pos, track_length)
       THEN pc' = "event_delta" /\ iter_pos' = pos
       ELSE pc' = "track_end" /\ UNCHANGED iter_pos
    /\ UNCHANGED <<file, pos, overflow_checks, error, midi_file, header_length,
                   format, num_tracks, time_division, tracks, track_length,
                   track_start_pos, events, running_status, delta_time, status,
                   chunk_pos, status_log, ret>>

\* SeekTarget without the seek.
SeekTargetStay(current_pos, expected_pos) == current_pos

\* the position the track decoder leaves the stream at
SeekTarget(current_pos, expected_pos) ==
    IF current_pos # expected_pos THEN expected_pos ELSE current_pos

TrackEnd ==
    /\ pc = "track_end"
    /\ pos' = SeekTarget(pos, track_start_pos + track_length)
    /\ tracks' = Append(tracks, [events |-> events])
    /\ pc' = "open_loop"
    /\ UNCHANGED <<file, overflow_checks, error, midi_file, header_length,
                   format, num_tracks, time_division, track_length,
                   track_start_pos, events, running_status, delta_time, status,
                   chunk_pos, status_log, iter_pos, ret>>

(***************************************************************************)
(* parse_event as steps.                                                   *)
(***************************************************************************)
EventDelta ==
    /\ pc = "event_delta"
    /\ LET r == ReadVariableLength(file, pos) IN
         /\ pos' = r.pos
         /\ IF r.err # "none" THEN Raise("Io") /\ UNCHANGED delta_time
            ELSE delta_time' = r.val /\ pc' = "event_status" /\ UNCHANGED error
    /\ UNCHANGED <<file, overflow_checks, midi_file, header_length, format,
                   num_tracks, time_division, tracks, track_length,
                   track_start_pos, events, running_status, status,
                   chunk_pos, status_log, iter_pos, ret>>

EventStatus ==
    /\ pc = "event_status"
    /\ LET r == ReadU8(file, pos) IN
         /\ pos' = r.pos
         /\ IF r.err # "none" THEN Raise("Io") /\ UNCHANGED <<status, status_log>>
            ELSE /\ status' = r.val
                 /\ status_log' = Append(status_log, r.val)
                 /\ pc' = "event_resolve"
                 /\ UNCHANGED error
    /\ UNCHANGED <<file, overflow_checks, midi_file, header_length, format,
                   num_tracks, time_division, tracks, track_length,
                   track_start_pos, events, running_status, delta_time,
                   chunk_pos, iter_pos, ret>>

EventResolve ==
    /\ pc = "event_resolve"
    /\ LET r == ResolveStatus(status, running_status) IN
         /\ pos' = pos + r.seek
         /\ status' = r.status
         /\ running_status' = r.rs
         /\ IF r.err # "none" THEN Raise(r.err)
            ELSE pc' = "event_message" /\ UNCHANGED error
    /\ UNCHANGED <<file, overflow_checks, midi_file, header_length, format,
                   num_tracks, time_division, tracks, track_length,
                   track_start_pos, events, delta_time,
                   chunk_pos, status_log, iter_pos, ret>>

\* parse_message, Ok(MidiEvent), events.push(event) and the EndOfTrack break
BreakAfter(message) == IsEndOfTrack(message)

EventMessage ==
    /\ pc = "event_message"
    /\ LET m == ParseMessage(file, pos, status) IN
         /\ pos' = m.pos
         /\ IF m.err # "none" THEN Raise(m.err) /\ UNCHANGED events
            ELSE /\ events' = Append(events, MidiEvent(delta_time, m.msg))
                 /\ pc' = IF BreakAfter(m.msg) THEN "track_end" ELSE "track_loop"
                 /\ UNCHANGED error
    /\ UNCHANGED <<file, overflow_checks, midi_file, header_length, format,
                   num_tracks, time_division, tracks, track_length,
                   track_start_pos, running_status, delta_time, status,
                   chunk_pos, status_log, iter_pos, ret>>

Next ==
    \/ OpenValidate
    \/ OpenHeaderLength
    \/ OpenHeaderData
    \/ OpenLoop
    \/ TrackValidate
    \/ TrackLength
    \/ TrackLoop
    \/ EventDelta
    \/ EventStatus
    \/ EventResolve
    \/ EventMessage
    \/ TrackEnd

Spec == Init /\ [][Next]_vars

\* The decoder is one synchronous thread: an enabled step is taken.  FairSpec
\* decodes the single-track sources of up to MaxLiveEvents events.
LiveFiles ==
    { HeaderChunk(MThd, 6, 0, 1) \o TrackChunk(evs, sh) :
        evs \in EventLists(EventFrags, MaxLiveEvents), sh \in Shapes }
    \cup BadFiles

InitLive == \E f \in LiveFiles : Start(f) /\ pc = "open"

FairSpec == InitLive /\ [][Next]_vars /\ WF_vars(Next)

Returned == pc \in {"ok", "err"}
Stopped == pc \in {"ok", "err", "panic"}

(***************************************************************************)
(* SpecVLQ: read_variable_length applied to every byte sequence of up to   *)
(* MaxVlqBytes bytes over VlqBytes.                                        *)
(***************************************************************************)
VlqBytes == {0, 1, 127, 128, 129, 255}

VlqInputs == UNION { [1..k -> VlqBytes] : k \in 0..MaxVlqBytes }

InitVLQ == \E f \in VlqInputs : Start(f) /\ pc = "vlq_call"

ApplyReadVariableLength ==
    /\ pc = "vlq_call"
    /\ ret' = ReadVariableLength(file, pos)
    /\ pos' = ret'.pos
    /\ pc' = "vlq_done"
    /\ UNCHANGED <<file, overflow_checks, error, midi_file, header_length,
                   format, num_tracks, time_division, tracks, track_length,
                   track_start_pos, events, running_status, delta_time, status,
                   chunk_pos, status_log, iter_pos>>

SpecVLQ == InitVLQ /\ [][ApplyReadVariableLength]_vars

(***************************************************************************)
(* SpecMeta: parse_message applied with status 0xFF to a meta type, a      *)
(* declared length and a payload that is complete or cut short.            *)
(***************************************************************************)
MetaTypes == {0, 1, 47, 81, 88, 89, 127, 16}

\* payload[0] = a, payload[1] = b, the other bytes fixed
Payload(a, b, n) ==
    [i \in 1..n |-> IF i = 1 THEN a ELSE IF i = 2 THEN b ELSE 20 + i]

MetaInput(t, length, avail, a, b) == <<t, length>> \o Payload(a, b, avail)

InitMeta ==
    \E t \in MetaTypes, length \in 0..MaxMetaLen, a \in {0, 4, 255}, b \in Byte :
        \E avail \in 0..length :
            /\ file = MetaInput(t, length, avail, a, b)
            /\ pos = 0
            /\ overflow_checks \in BOOLEAN
            /\ error = "none"
            /\ midi_file = NoFile
            /\ header_length = 0
            /\ format = 0
            /\ num_tracks = 0
            /\ time_division = 0
            /\ tracks = <<>>
            /\ track_length = 0
            /\ track_start_pos = 0
            /\ events = <<>>
            /\ running_status = None
            /\ delta_time = 0
            /\ status = 255
            /\ chunk_pos = <<>>
            /\ status_log = <<>>
            /\ iter_pos = 0
            /\ ret = NoMsg
            /\ pc = "message_call"

ApplyParseMessage ==
    /\ pc = "message_call"
    /\ ret' = ParseMessage(file, pos, status)
    /\ pos' = ret'.pos
    /\ pc' = "message_done"
    /\ UNCHANGED <<file, overflow_checks, error, midi_file, header_length,
                   format, num_tracks, time_division, tracks, track_length,
                   track_start_pos, events, running_status, delta_time, status,
                   chunk_pos, status_log, iter_pos>>

SpecMeta == InitMeta /\ [][ApplyParseMessage]_vars

(***************************************************************************)
(* SpecEvent: parse_event applied to a delta time followed by up to        *)
(* MaxBody bytes, under every sampled running status.                      *)
(***************************************************************************)
DeltaSamples == { <<0>>, <<129, 0>>, <<255, 127>> }
BodyBytes == {0, 64, 127, 128, 145, 196, 247, 255}
StatusSamples == {None, 128, 145, 162, 179, 196, 213, 224, 239}

EventInputs ==
    { d \o b : d \in DeltaSamples,
               b \in UNION { [1..k -> BodyBytes] : k \in 0..MaxBody } }

InitEvent ==
    \E f \in EventInputs, rs \in StatusSamples :
        /\ file = f
        /\ pos = 0
        /\ overflow_checks \in BOOLEAN
        /\ error = "none"
        /\ midi_file = NoFile
        /\ header_length = 0
        /\ format = 0
        /\ num_tracks = 0
        /\ time_division = 0
        /\ tracks = <<>>
        /\ track_length = 0
        /\ track_start_pos = 0
        /\ events = <<>>
        /\ running_status = rs
        /\ delta_time = 0
        /\ status = None
        /\ chunk_pos = <<>>
        /\ status_log = <<>>
        /\ iter_pos = 0
        /\ ret = NoMsg
        /\ pc = "event_call"

\* running_status keeps the value passed in; ret.rs is the value on return
ApplyParseEvent ==
    /\ pc = "event_call"
    /\ ret' = ParseEvent(file, pos, running_status)
    /\ pos' = ret'.pos
    /\ pc' = "event_done"
    /\ UNCHANGED <<file, overflow_checks, error, midi_file, header_length,
                   format, num_tracks, time_division, tracks, track_length,
                   track_start_pos, events, running_status, delta_time, status,
                   chunk_pos, status_log, iter_pos>>

SpecEvent == InitEvent /\ [][ApplyParseEvent]_vars

(***************************************************************************)
(* Properties.                                                             *)
(***************************************************************************)
IsChannelStatus(b) == b >= 128 /\ b <= 239

BodyLength(s) == IF s >= 192 /\ s <= 223 THEN 1 ELSE 2

WithStatus(f, at, s) == SubSeq(f, 1, at) \o <<s>> \o SubSeq(f, at + 1, Len(f))

\* C1: with running status Some(s), s a channel status, an event whose body
\* starts with a data byte and omits the status decodes to the same result as
\* the same bytes with s repeated after the delta time; running status stays
\* Some(s); and a decoded event ends exactly len(delta) + body length bytes
\* after its start (one byte less than the form with the status repeated).
C1_RunningStatusEquivalence ==
    (pc = "event_done" /\ IsChannelStatus(running_status)) =>
        LET d == ReadVariableLength(file, 0) IN
        (d.err = "none" /\ d.pos < Len(file) /\ file[d.pos + 1] < 128) =>
            LET explicit == ParseEvent(WithStatus(file, d.pos, running_status),
                                       0, running_status) IN
            /\ ret.err = explicit.err
            /\ ret.event = explicit.event
            /\ ret.rs = running_status
            /\ explicit.rs = running_status
            /\ ret.err = "none" =>
                 /\ ret.pos = d.pos + BodyLength(running_status)
                 /\ explicit.pos = ret.pos + 1

C1_Witness ==
    /\ pc = "event_done"
    /\ running_status = 145
    /\ file = <<129, 0, 64, 127>>
    /\ ret.err = "none"
    /\ ret.event = MidiEvent(128, NoteOn(1, 64, 127))
    /\ ret.pos = 4

NoEndOfTrackBeforeLast(evs) ==
    \A i \in 1..(Len(evs) - 1) : ~IsEndOfTrack(evs[i].message)

DeclaredEnd(i) == chunk_pos[i] + 8 + ReadU32(file, chunk_pos[i] + 4).val

\* C2: in every decoded track no event follows an EndOfTrack (the loop goes on
\* only after an event that is not EndOfTrack); when parse_track returns the
\* position is track start + declared length, and the next chunk tag is read
\* from that offset.
C2_TrackEndsAtDeclaredLength ==
    /\ \A i \in 1..Len(tracks) :
         /\ NoEndOfTrackBeforeLast(tracks[i].events)
         /\ i < Len(chunk_pos) => chunk_pos[i + 1] = DeclaredEnd(i)
    /\ pc \in {"track_loop", "event_delta", "event_status", "event_resolve",
               "event_message"} =>
         \A i \in 1..Len(events) : ~IsEndOfTrack(events[i].message)
    /\ (pc = "open_loop" /\ tracks # <<>>) =>
         /\ pos = DeclaredEnd(Len(tracks))
         /\ pos = track_start_pos + track_length

\* a first track of one EndOfTrack event in a chunk declared one byte longer,
\* and the second chunk's tag found at the declared end
C2_Witness ==
    /\ pc = "track_length"
    /\ Len(tracks) = 1
    /\ Len(chunk_pos) = 2
    /\ tracks[1].events = << MidiEvent(0, Meta(EndOfTrack)) >>
    /\ ReadU32(file, chunk_pos[1] + 4).val = 5
    /\ chunk_pos[2] = chunk_pos[1] + 8 + 5

\* C3: when open returns Ok the format is at most 2, the header length read
\* was 6, there are num_tracks tracks and track i holds the events of the i-th
\* chunk, the chunks taken in file order; nothing is returned otherwise; and
\* an error is the error of the first failing step: after a header error no
\* track was begun, and the failing track is the one after the decoded ones.
C3_OpenAllOrNothing ==
    /\ pc = "ok" =>
         /\ midi_file.header.format <= 2
         /\ header_length = 6
         /\ Len(midi_file.tracks) = midi_file.header.num_tracks
         /\ Len(chunk_pos) = midi_file.header.num_tracks
         /\ \A i \in 1..Len(chunk_pos) :
              /\ ParseTrack(file, chunk_pos[i]).err = "none"
              /\ midi_file.tracks[i].events = ParseTrack(file, chunk_pos[i]).events
              /\ chunk_pos[i] = IF i = 1 THEN 14 ELSE ParseTrack(file, chunk_pos[i - 1]).pos
              /\ i > 1 => chunk_pos[i - 1] < chunk_pos[i]
    /\ pc # "ok" => midi_file = NoFile
    /\ pc = "err" =>
         /\ error \in {"Io", "Format", "Unsupported"}
         /\ IF chunk_pos = <<>> THEN tracks = <<>>
            ELSE /\ Len(chunk_pos) = Len(tracks) + 1
                 /\ ParseTrack(file, chunk_pos[Len(chunk_pos)]).err = error
                 /\ \A i \in 1..Len(tracks) : ParseTrack(file, chunk_pos[i]).err = "none"

C3_Witness ==
    /\ pc = "ok"
    /\ midi_file.header.num_tracks = 2
    /\ Len(midi_file.tracks[1].events) = 3
    /\ midi_file.tracks[2].events = << MidiEvent(0, Meta(EndOfTrack)) >>

FixedSizeTypes == {0, 47, 81, 88, 89}

RequiredLength(t) ==
    CASE t = 0 -> 2 [] t = 47 -> 0 [] t = 81 -> 3 [] t = 88 -> 4 [] t = 89 -> 2

VariantOf(t) ==
    CASE t = 0 -> "SequenceNumber" [] t = 47 -> "EndOfTrack" [] t = 81 -> "SetTempo"
      [] t = 88 -> "TimeSignature" [] t = 89 -> "KeySignature"

\* the input of SpecMeta: meta type, declared length, the payload bytes present
MetaType == file[1]
DeclaredLength == file[2]
PayloadPresent == Len(file) - 2 >= DeclaredLength
MetaDecoded == pc = "message_done" /\ MetaType \in FixedSizeTypes

Pow2U8(n) == IF n < 8 THEN Pow2(n) ELSE 0

\* C9: a meta event of type 0x58 with declared length 4 decodes, for every
\* payload[1] in 0..255, to TimeSignature with numerator payload[0],
\* denominator 2^payload[1], clocks_per_metronome payload[2] and
\* thirty_seconds_per_quarter payload[3].
C9_TimeSignatureFields ==
    (pc = "message_done" /\ MetaType = 88 /\ DeclaredLength = 4 /\ PayloadPresent) =>
        /\ ret.err = "none"
        /\ ret.msg = Meta(TimeSignature(file[3], Pow2U8(file[4]), file[5], file[6]))

\* C9 holds of the shift amounts the field can take: payload[1] below 8.
C9_SmallExponent ==
    (pc = "message_done" /\ MetaType = 88 /\ DeclaredLength = 4 /\ PayloadPresent
     /\ file[4] < 8) =>
        /\ ret.err = "none"
        /\ ret.msg = Meta(TimeSignature(file[3], Pow2(file[4]), file[5], file[6]))

RECURSIVE VlqSum(_, _)
VlqSum(bytes, n) ==
    IF n = 0 THEN 0
    ELSE VlqSum(bytes, n - 1) * 128 + (bytes[n] % 128)

\* the number of bytes up to the first one with the high bit clear, 0 if none
FirstTerminal(bytes) ==
    IF \E i \in 1..Len(bytes) : bytes[i] < 128
    THEN CHOOSE i \in 1..Len(bytes) :
             bytes[i] < 128 /\ \A j \in 1..(i - 1) : bytes[j] >= 128
    ELSE 0

\* C5: when the first byte with the high bit clear is the n-th, 1 <= n <= 4,
\* read_variable_length returns the sum of (b_i & 0x7F) * 128^(n-1-i) and
\* consumes exactly n bytes; [0x81,0x00] gives 128, [0x00] gives 0 and
\* [0xFF,0x7F] gives 16383; when the source ends before such a byte, it fails
\* with an I/O error.
C5_VlqValue ==
    pc = "vlq_done" =>
        LET n == FirstTerminal(file) IN
        /\ (n >= 1 /\ n <= 4) =>
             /\ ret.err = "none"
             /\ ret.val = VlqSum(file, n)
             /\ ret.pos = n
             /\ pos = n
        /\ n = 0 => ret.err = "Io"
        /\ file = <<129, 0>> => ret.val = 128
        /\ file = <<0>> => ret.val = 0
        /\ file = <<255, 127>> => ret.val = 16383

C5_Witness ==
    /\ pc = "vlq_done"
    /\ file = <<255, 255, 255, 127, 1>>
    /\ ret.err = "none"
    /\ ret.val = 268435455
    /\ ret.pos = 4

NoChannelStatusIn(log) == \A i \in 1..Len(log) : ~IsChannelStatus(log[i])

HasChannelEvent(evs) == \E i \in 1..Len(evs) : evs[i].message.type \in ChannelTypes

\* C6: running status is None when a track's event loop starts, whatever an
\* earlier track left; and a byte below 0x80 in status position, when no
\* status byte in 0x80..0xEF was read before it in the same track, ends the
\* decode with a Format error.
C6_RunningStatusPerTrack ==
    /\ [](pc = "track_loop" /\ events = <<>> => running_status = None)
    /\ [][(pc = "event_resolve" /\ status < 128 /\ NoChannelStatusIn(status_log))
              => (pc' = "err" /\ error' = "Format")]_vars

\* the second track begins with a data byte after a first track that decoded
\* a channel message
C6_Witness ==
    /\ pc = "err"
    /\ error = "Format"
    /\ Len(tracks) = 1
    /\ HasChannelEvent(tracks[1].events)
    /\ Len(chunk_pos) = 2
    /\ status_log = <<60>>
    /\ status = 60

RECURSIVE LastChannelStatus(_)
LastChannelStatus(log) ==
    IF log = <<>> THEN None
    ELSE IF IsChannelStatus(log[Len(log)]) THEN log[Len(log)]
    ELSE LastChannelStatus(SubSeq(log, 1, Len(log) - 1))

C8_PositionNeverDecreases ==
    [][pos' >= pos \/ (pc = "event_resolve" /\ status < 128 /\ pos' = pos - 1)]_vars

\* C8 amended: the stream position decreases only by one byte in parse_event,
\* when a data byte is found in status position with running status active,
\* and in the seek that ends parse_track, which puts the position at track
\* start + declared length, behind the events that ran past that length.
C8_BackwardOnlyByRewindOrTrackEnd ==
    [][pos' >= pos
       \/ (pc = "event_resolve" /\ status < 128 /\ pos' = pos - 1)
       \/ (pc = "track_end" /\ pos' = track_start_pos + track_length)]_vars

\* a track declared 3 bytes long whose EndOfTrack event takes 4: parse_track
\* has returned with the position one byte before the end of the event
C8_Witness ==
    /\ pc = "open_loop"
    /\ Len(tracks) = 1
    /\ tracks[1].events = << MidiEvent(0, Meta(EndOfTrack)) >>
    /\ track_length = 3
    /\ pos = track_start_pos + 3
    /\ ParseEvent(file, track_start_pos, None).pos = pos + 1

\* C10: on every source open eventually returns Ok or Err.
C10_OpenReturns == <>Returned

\* what holds instead: the decode always stops (Ok, Err or a panic), every
\* iteration of the event loop that completes leaves the position beyond where
\* it began, and no more than num_tracks tracks are decoded.
C10_OpenStops ==
    /\ <>Stopped
    /\ []((pc \in {"track_loop", "track_end"} /\ events # <<>>) => pos > iter_pos)
    /\ [](Len(tracks) <= num_tracks /\ Len(chunk_pos) <= num_tracks)

====
